---- MODULE Spec2Model ----
(***************************************************************************)
(* Model of the smart-city backend: the Granite LLM gateway                *)
(* (app/services/granite_llm.py), the authentication service              *)
(* (app/services/auth_service.py), the role gates (app/api/dependencies.py)*)
(* and the routers that use them.                                          *)
(*                                                                         *)
(* Process 0 is the construction of the module-level singleton             *)
(* (granite_llm = GraniteLLM()); processes 1..NThreads are request         *)
(* handlers calling one of the gateway's wrappers.                         *)
(***************************************************************************)
EXTENDS Integers, Sequences, FiniteSets, TLC

\* ------------------------------------------------------------ bounds ----
NThreads == 2       \* handlers that may be inside the gateway
MaxRequests == 3    \* generation requests followed within one generate call
MaxCatalog == 2     \* size of the largest catalog the remote service lists
MaxClock == 2       \* time units the clock advances
MaxDelta == 2       \* longest expires_delta passed to create_access_token
MaxRows == 1        \* rows the feedback and the announcements table hold together
MaxDays == 2        \* most days of history a request asks for

\* --------------------------------------------------------- constants ----
None == "None"

DEFAULT_MODEL_ID == "ibm/granite-3-8b-instruct"

FALLBACK_MODEL_ORDER ==
    << "ibm/granite-3-8b-instruct",
       "ibm/granite-3-3-8b-instruct",
       "ibm/granite-3-2-8b-instruct",
       "ibm/granite-3-2b-instruct" >>

\* A model identifier that is not in the fallback ranking.
OtherModels == {"meta/llama-3"}

RankedModels == {FALLBACK_MODEL_ORDER[i] : i \in 1..Len(FALLBACK_MODEL_ORDER)}

Models == RankedModels \cup OtherModels

\* settings.watsonx_model_id: unset (the default, which heads the ranking),
\* blank text, or an identifier outside the ranking.
ModelSettings == {None, " "} \cup OtherModels

\* Process 0 constructs the singleton (granite_llm = GraniteLLM()); the
\* handlers are numbered from 1.
Threads == 1..NThreads
Ctor == 0
Procs == {Ctor} \cup Threads

\* The wrappers the routers call (generate_city_report has no caller).
Wrappers == {"ask_granite", "generate_summary", "generate_eco_tip"}

\* What the identity-token endpoint can answer.
IamResponses == {"access_token", "no_access_token", "error"}

\* What the generation endpoint can answer.
GenResponses ==
    {"generated_text", "empty_text", "malformed", "model_not_supported", "http_error", "timeout"}

\* What _load_available_models can return: the identifiers listed by the
\* catalog, or the empty set when the request fails.
CatalogResponses == {S \in SUBSET Models : Cardinality(S) <= MaxCatalog}

VARIABLES
    api_key,            \* self.api_key
    project_id,         \* self.project_id
    model_id,           \* self.model_id
    token,              \* self.token
    available_models,   \* self.available_models
    configured_model,   \* model_id as set from the settings (line 31)
    pc,                 \* position of each process
    idx,                \* position of the for loop of _select_supported_model
    payload_model,      \* payload["model_id"] of the request being built
    previous_model,     \* local previous_model of the HTTPError handler
    response,           \* what _make_request returned to the wrapper
    wrapper,            \* the wrapper a handler called
    reply,              \* what the wrapper returned to the handler
    models_sent,        \* per call: payload model of each generation request
    resps,              \* per call: answer to each generation request
    catalog_requests,   \* per process: catalog requests issued (per call)
    changes,            \* per process: changes of model_id made (per call)
    iam_result,         \* answer of the identity-token endpoint, "not_asked" if none
    remote_models,      \* models the remote service supports (SpecConc)
    clock,              \* datetime.utcnow(), in whole time units
    issued,             \* the last create_access_token call and its token
    verified,           \* the last verify_token call and its result
    users,              \* the users table, in id order (id = position)
    feedback,           \* the feedback table
    announcements,      \* the announcements table
    outcome,            \* the last call completed and what it returned
    registering         \* per handler: the registration it is running

llm == << api_key, project_id, model_id, token, available_models, configured_model,
          pc, idx, payload_model, previous_model, response, wrapper, reply,
          models_sent, resps, catalog_requests, changes, iam_result, remote_models >>

db == << users, feedback, announcements >>

auth == << clock, issued, verified, db, outcome, registering >>

vars == << llm, auth >>

gateway == << api_key, project_id, model_id, token, available_models, configured_model >>

\* ------------------------------------------------------------ values ----
Outcome(kind, by) == [kind |-> kind, by |-> by]
Pending == Outcome("pending", "-")
NoneOutcome == Outcome("none", "-")
EmptyText == Outcome("empty", "-")
GeneratedText(model) == Outcome("text", model)

\* Python truthiness of a string-or-None value.
Truthy(v) == v # None /\ v # ""

\* (settings.watsonx_model_id or DEFAULT_MODEL_ID).strip()
StripModelSetting(s) ==
    IF s = None THEN DEFAULT_MODEL_ID
    ELSE IF s = " " THEN ""
    ELSE s

\* -------------------------------------------------------------- init ----
NoToken == [kind |-> "no_token"]
NotVerified == [kind |-> "not_verified"]

NoOutcome == [op |-> "none"]

\* A handler that is not inside a register endpoint.
NotRegistering == [pc |-> "idle"]

\* No token has been created or verified yet.
TokenInit ==
    /\ clock = 0
    /\ issued = NoToken
    /\ verified = NotVerified

\* The tables as the process finds them, and no call made yet.
DbInit(stores) ==
    /\ users \in stores
    /\ feedback = << >>
    /\ announcements = << >>
    /\ outcome = NoOutcome
    /\ registering = [t \in Threads |-> NotRegistering]

AuthInit == TokenInit /\ DbInit({<< >>})

\* Lines 24-31 of __init__ have run: the settings are copied, nothing has
\* been requested yet and no handler is running.
LlmInit(remotes) ==
    /\ api_key \in {"", "key"}
    /\ project_id \in {"", "project"}
    /\ \E s \in ModelSettings :
         /\ model_id = StripModelSetting(s)
         /\ configured_model = StripModelSetting(s)
    /\ token = None
    /\ available_models = {}
    /\ pc = [p \in Procs |-> IF p = Ctor THEN "get_iam_token" ELSE "idle"]
    /\ idx = [p \in Procs |-> 1]
    /\ payload_model = [p \in Procs |-> None]
    /\ previous_model = [p \in Procs |-> None]
    /\ response = [p \in Procs |-> Pending]
    /\ wrapper = [p \in Procs |-> None]
    /\ reply = [p \in Procs |-> Pending]
    /\ models_sent = [p \in Procs |-> << >>]
    /\ resps = [p \in Procs |-> << >>]
    /\ catalog_requests = [p \in Procs |-> 0]
    /\ changes = [p \in Procs |-> 0]
    /\ iam_result = "not_asked"
    /\ remote_models \in remotes

Init == LlmInit({{}}) /\ AuthInit

\* ------------------------------------------------ GraniteLLM.__init__ ----
\* _get_iam_token, called from __init__ (line 32): no request without an API
\* key; otherwise the access_token field of the answer, None on any error.
GetIamToken(r) ==
    /\ pc[Ctor] = "get_iam_token"
    /\ IF ~Truthy(api_key)
         THEN /\ token' = None
              /\ iam_result' = "not_asked"
         ELSE /\ token' = IF r = "access_token" THEN "token" ELSE None
              /\ iam_result' = r
    /\ pc' = [pc EXCEPT ![Ctor] = "load_models"]
    /\ UNCHANGED << api_key, project_id, model_id, available_models, configured_model,
                    idx, payload_model, previous_model, response, wrapper, reply,
                    models_sent, resps, catalog_requests, changes, remote_models, auth >>

\* Mutant: lines 33-35 without "if self.token".
InitLoadModels_NoTokenCheck(S) ==
    /\ pc[Ctor] = "load_models"
    /\ available_models' = S
    /\ catalog_requests' = [catalog_requests EXCEPT ![Ctor] = @ + 1]
    /\ pc' = [pc EXCEPT ![Ctor] = "select_enter"]
    /\ UNCHANGED << api_key, project_id, model_id, token, configured_model,
                    idx, payload_model, previous_model, response, wrapper, reply,
                    models_sent, resps, changes, iam_result, remote_models, auth >>

\* Lines 33-36: the catalog is fetched only when a token is held; then
\* _select_supported_model() is entered without force_refresh.
InitLoadModels(S) ==
    /\ pc[Ctor] = "load_models"
    /\ IF Truthy(token)
         THEN /\ available_models' = S
              /\ catalog_requests' = [catalog_requests EXCEPT ![Ctor] = @ + 1]
         ELSE /\ available_models' = {}
              /\ UNCHANGED catalog_requests
    /\ pc' = [pc EXCEPT ![Ctor] = "select_enter"]
    /\ UNCHANGED << api_key, project_id, model_id, token, configured_model,
                    idx, payload_model, previous_model, response, wrapper, reply,
                    models_sent, resps, changes, iam_result, remote_models, auth >>

\* ------------------------------------------ _select_supported_model ----
\* The caller's force_refresh argument: False from __init__ (line 36), True
\* from the HTTPError handler of _make_request (line 106).
ForceRefresh(p) == p # Ctor

\* Where _select_supported_model returns to.
AfterSelect(p) == IF p = Ctor THEN "ready" ELSE "compare"

\* Lines 140-144: return without a token; else refresh or go on.
SelectEnter(p) ==
    /\ pc[p] = "select_enter"
    /\ pc' = [pc EXCEPT ![p] =
                IF ~Truthy(token) THEN AfterSelect(p)
                ELSE IF ForceRefresh(p) THEN "refresh"
                ELSE "check_empty"]
    /\ UNCHANGED << gateway, idx, payload_model, previous_model, response, wrapper,
                    reply, models_sent, resps, catalog_requests, changes, iam_result,
                    remote_models, auth >>

\* Line 144: self.available_models = self._load_available_models()
RefreshModels(p, S) ==
    /\ pc[p] = "refresh"
    /\ available_models' = S
    /\ catalog_requests' = [catalog_requests EXCEPT ![p] = @ + 1]
    /\ pc' = [pc EXCEPT ![p] = "check_empty"]
    /\ UNCHANGED << api_key, project_id, model_id, token, configured_model,
                    idx, payload_model, previous_model, response, wrapper, reply,
                    models_sent, resps, changes, iam_result, remote_models, auth >>

\* Lines 146-147: nothing to select from.
CheckEmpty(p) ==
    /\ pc[p] = "check_empty"
    /\ pc' = [pc EXCEPT ![p] = IF available_models = {} THEN AfterSelect(p) ELSE "check_member"]
    /\ UNCHANGED << gateway, idx, payload_model, previous_model, response, wrapper,
                    reply, models_sent, resps, catalog_requests, changes, iam_result,
                    remote_models, auth >>

\* Mutant: lines 149-150 left out, the ranking is always walked.
CheckMember_Skipped(p) ==
    /\ pc[p] = "check_member"
    /\ pc' = [pc EXCEPT ![p] = "loop"]
    /\ idx' = [idx EXCEPT ![p] = 1]
    /\ UNCHANGED << gateway, payload_model, previous_model, response, wrapper,
                    reply, models_sent, resps, catalog_requests, changes, iam_result,
                    remote_models, auth >>

\* Mutant: lines 149-150 replaced by "move on to the model ranked after the
\* active one": the loop starts behind the active model's rank.
CheckMember_NextRanked(p) ==
    /\ pc[p] = "check_member"
    /\ pc' = [pc EXCEPT ![p] = "loop"]
    /\ idx' = [idx EXCEPT ![p] =
                 IF \E i \in 1..(Len(FALLBACK_MODEL_ORDER) - 1) : FALLBACK_MODEL_ORDER[i] = model_id
                   THEN 1 + CHOOSE i \in 1..(Len(FALLBACK_MODEL_ORDER) - 1) :
                                FALLBACK_MODEL_ORDER[i] = model_id
                   ELSE 1]
    /\ UNCHANGED << gateway, payload_model, previous_model, response, wrapper,
                    reply, models_sent, resps, catalog_requests, changes, iam_result,
                    remote_models, auth >>

\* Lines 149-150: the active model is available; else start the for loop.
CheckMember(p) ==
    /\ pc[p] = "check_member"
    /\ pc' = [pc EXCEPT ![p] = IF model_id \in available_models THEN AfterSelect(p) ELSE "loop"]
    /\ idx' = [idx EXCEPT ![p] = 1]
    /\ UNCHANGED << gateway, payload_model, previous_model, response, wrapper,
                    reply, models_sent, resps, catalog_requests, changes, iam_result,
                    remote_models, auth >>

\* Mutant: line 162 replaced by a fall-back to the head of the ranking.
LoopCandidate_DefaultWhenNone(p) ==
    /\ pc[p] = "loop"
    /\ IF FALLBACK_MODEL_ORDER[idx[p]] \in available_models
         THEN /\ pc' = [pc EXCEPT ![p] = "assign"]
              /\ UNCHANGED idx
         ELSE IF idx[p] < Len(FALLBACK_MODEL_ORDER)
         THEN /\ idx' = [idx EXCEPT ![p] = @ + 1]
              /\ UNCHANGED pc
         ELSE /\ pc' = [pc EXCEPT ![p] = "assign"]
              /\ idx' = [idx EXCEPT ![p] = 1]
    /\ UNCHANGED << gateway, payload_model, previous_model, response, wrapper,
                    reply, models_sent, resps, catalog_requests, changes, iam_result,
                    remote_models, auth >>

\* Lines 156-157 and 162: one iteration of the loop over the ranking.
LoopCandidate(p) ==
    /\ pc[p] = "loop"
    /\ IF FALLBACK_MODEL_ORDER[idx[p]] \in available_models
         THEN /\ pc' = [pc EXCEPT ![p] = "assign"]
              /\ UNCHANGED idx
         ELSE IF idx[p] < Len(FALLBACK_MODEL_ORDER)
         THEN /\ idx' = [idx EXCEPT ![p] = @ + 1]
              /\ UNCHANGED pc
         ELSE /\ pc' = [pc EXCEPT ![p] = AfterSelect(p)]
              /\ UNCHANGED idx
    /\ UNCHANGED << gateway, payload_model, previous_model, response, wrapper,
                    reply, models_sent, resps, catalog_requests, changes, iam_result,
                    remote_models, auth >>

\* Lines 158-160: self.model_id = candidate; return.
AssignCandidate(p) ==
    /\ pc[p] = "assign"
    /\ model_id' = FALLBACK_MODEL_ORDER[idx[p]]
    /\ changes' = [changes EXCEPT ![p] = IF model_id' # model_id THEN @ + 1 ELSE @]
    /\ pc' = [pc EXCEPT ![p] = AfterSelect(p)]
    /\ UNCHANGED << api_key, project_id, token, available_models, configured_model,
                    idx, payload_model, previous_model, response, wrapper, reply,
                    models_sent, resps, catalog_requests, iam_result, remote_models, auth >>

\* ---------------------------------------------------- _make_request ----
\* A wrapper is called by a request handler (lines 164-185); handlers run
\* only once the module-level singleton exists (line 188).
Call(t, w) ==
    /\ pc[Ctor] = "ready"
    /\ pc[t] = "idle"
    /\ wrapper' = [wrapper EXCEPT ![t] = w]
    /\ pc' = [pc EXCEPT ![t] = "make_request"]
    /\ UNCHANGED << gateway, idx, payload_model, previous_model, response, reply,
                    models_sent, resps, catalog_requests, changes, iam_result,
                    remote_models, auth >>

\* Mutant: lines 62-64 left out.
CanIssueRequests_NoTokenCheck == Truthy(project_id)

\* Lines 62-68: the two early returns of _make_request.
CanIssueRequests == Truthy(token) /\ Truthy(project_id)

\* Lines 62-87: give up without a token or a project id; else build the
\* payload, reading self.model_id (line 76).
MakeRequestEnter(t) ==
    /\ pc[t] = "make_request"
    /\ Len(models_sent[t]) < MaxRequests
    /\ IF CanIssueRequests
         THEN /\ payload_model' = [payload_model EXCEPT ![t] =
                                     IF Truthy(model_id) THEN model_id ELSE DEFAULT_MODEL_ID]
              /\ pc' = [pc EXCEPT ![t] = "post"]
              /\ UNCHANGED response
         ELSE /\ response' = [response EXCEPT ![t] = NoneOutcome]
              /\ pc' = [pc EXCEPT ![t] = "wrapper_return"]
              /\ UNCHANGED payload_model
    /\ UNCHANGED << gateway, idx, previous_model, wrapper, reply, models_sent, resps,
                    catalog_requests, changes, iam_result, remote_models, auth >>

\* Mutant: line 104 without the test of the status and the error text.
IsModelNotSupported_AnyHttpError(r) == r \in {"model_not_supported", "http_error"}

\* Line 104: the one answer that starts the recovery.
IsModelNotSupported(r) == r = "model_not_supported"

\* What _make_request returns for an answer that ends the call: the text of
\* the first result (line 99, "" when the field is missing), None from the
\* HTTPError handler (line 110) and from the general handler (line 113).
ReturnValue(r, model) ==
    CASE r = "generated_text" -> GeneratedText(model)
      [] r = "empty_text"     -> EmptyText
      [] r = "malformed"      -> NoneOutcome
      [] r = "http_error"     -> NoneOutcome
      [] r = "timeout"        -> NoneOutcome

\* Mutant: line 109 without its return statement.
RetryReturn_Dropped(v) == NoneOutcome

\* Line 109: the frame that retried returns what the retry returned.
RetryReturn(v) == v

\* What the outermost frame returns when frame number depth returns v.
FrameReturn(depth, v) == IF depth > 1 THEN RetryReturn(v) ELSE v

\* Lines 89-113: the generation request and the handling of its answer.
PostGeneration(t, r) ==
    /\ pc[t] = "post"
    /\ models_sent' = [models_sent EXCEPT ![t] = Append(@, payload_model[t])]
    /\ resps' = [resps EXCEPT ![t] = Append(@, r)]
    /\ IF IsModelNotSupported(r)
         THEN /\ pc' = [pc EXCEPT ![t] = "save_previous"]
              /\ UNCHANGED response
         ELSE /\ response' = [response EXCEPT ![t] =
                                FrameReturn(Len(models_sent'[t]), ReturnValue(r, payload_model[t]))]
              /\ pc' = [pc EXCEPT ![t] = "wrapper_return"]
    /\ UNCHANGED << gateway, idx, payload_model, previous_model, wrapper, reply,
                    catalog_requests, changes, iam_result, remote_models, auth >>

\* Lines 105-106: previous_model = self.model_id, then
\* self._select_supported_model(force_refresh=True).
SavePrevious(t) ==
    /\ pc[t] = "save_previous"
    /\ previous_model' = [previous_model EXCEPT ![t] = model_id]
    /\ pc' = [pc EXCEPT ![t] = "select_enter"]
    /\ UNCHANGED << gateway, idx, payload_model, response, wrapper, reply, models_sent,
                    resps, catalog_requests, changes, iam_result, remote_models, auth >>

\* Mutant: line 107 without the comparison with previous_model.
ShouldRetry_Always(t) == TRUE

\* Line 107: retry only when the selection changed self.model_id.
ShouldRetry(t) == model_id # previous_model[t]

\* Lines 107-110: call _make_request again, or return None.
CompareModel(t) ==
    /\ pc[t] = "compare"
    /\ IF ShouldRetry(t)
         THEN /\ pc' = [pc EXCEPT ![t] = "make_request"]
              /\ UNCHANGED response
         ELSE /\ response' = [response EXCEPT ![t] =
                                FrameReturn(Len(models_sent[t]), NoneOutcome)]
              /\ pc' = [pc EXCEPT ![t] = "wrapper_return"]
    /\ UNCHANGED << gateway, idx, payload_model, previous_model, wrapper, reply,
                    models_sent, resps, catalog_requests, changes, iam_result,
                    remote_models, auth >>

\* ---------------------------------------------------------- wrappers ----
\* The canned text of each wrapper (lines 170, 175, 180).
Canned(w) == Outcome("canned", w)

\* Mutant: "response if response is not None else <canned text>".
WrapperResult_NoneOnly(w, resp) == IF resp.kind # "none" THEN resp ELSE Canned(w)

\* "response or <canned text>": None and "" both give the canned text.
WrapperResult(w, resp) == IF resp.kind = "text" THEN resp ELSE Canned(w)

WrapperReturn(t) ==
    /\ pc[t] = "wrapper_return"
    /\ reply' = [reply EXCEPT ![t] = WrapperResult(wrapper[t], response[t])]
    /\ pc' = [pc EXCEPT ![t] = "done"]
    /\ UNCHANGED << gateway, idx, payload_model, previous_model, response, wrapper,
                    models_sent, resps, catalog_requests, changes, iam_result,
                    remote_models, auth >>

\* The handler answers its request and its frames are gone; the worker
\* takes the next request.
NextRequest(t) ==
    /\ pc[t] = "done"
    /\ pc' = [pc EXCEPT ![t] = "idle"]
    /\ idx' = [idx EXCEPT ![t] = 1]
    /\ payload_model' = [payload_model EXCEPT ![t] = None]
    /\ previous_model' = [previous_model EXCEPT ![t] = None]
    /\ response' = [response EXCEPT ![t] = Pending]
    /\ wrapper' = [wrapper EXCEPT ![t] = None]
    /\ reply' = [reply EXCEPT ![t] = Pending]
    /\ models_sent' = [models_sent EXCEPT ![t] = << >>]
    /\ resps' = [resps EXCEPT ![t] = << >>]
    /\ catalog_requests' = [catalog_requests EXCEPT ![t] = 0]
    /\ changes' = [changes EXCEPT ![t] = 0]
    /\ UNCHANGED << gateway, iam_result, remote_models, auth >>

\* ---------------------------------------------------- specifications ----
Construct ==
    \/ \E r \in IamResponses : GetIamToken(r)
    \/ \E S \in CatalogResponses : InitLoadModels(S)

Select(p) ==
    \/ SelectEnter(p)
    \/ CheckEmpty(p)
    \/ CheckMember(p)
    \/ LoopCandidate(p)
    \/ AssignCandidate(p)

\* The handlers are coroutines of one event loop that call the gateway
\* without awaiting (chat_router.py line 75): one call at a time.
MainThread == CHOOSE t \in Threads : \A u \in Threads : t <= u

Next ==
    \/ Construct
    \/ Select(Ctor)
    \/ \E w \in Wrappers : Call(MainThread, w)
    \/ MakeRequestEnter(MainThread)
    \/ \E r \in GenResponses : PostGeneration(MainThread, r)
    \/ SavePrevious(MainThread)
    \/ Select(MainThread)
    \/ \E S \in CatalogResponses : RefreshModels(MainThread, S)
    \/ CompareModel(MainThread)
    \/ WrapperReturn(MainThread)
    \/ NextRequest(MainThread)

Spec == Init /\ [][Next]_vars

\* Handlers run by a pool of threads, each making one call, against a remote
\* service that supports a fixed set of models: it rejects any other model
\* as not supported and lists exactly the supported ones.
InitConc == LlmInit(CatalogResponses) /\ AuthInit

RemoteAnswer(model) ==
    IF model \in remote_models THEN "generated_text" ELSE "model_not_supported"

NextConc ==
    \/ Construct
    \/ Select(Ctor)
    \/ \E t \in Threads :
         \/ Call(t, "ask_granite")
         \/ MakeRequestEnter(t)
         \/ PostGeneration(t, RemoteAnswer(payload_model[t]))
         \/ SavePrevious(t)
         \/ Select(t)
         \/ RefreshModels(t, remote_models)
         \/ CompareModel(t)
         \/ WrapperReturn(t)

SpecConc == InitConc /\ [][NextConc]_vars

\* ------------------------------------------------ AuthService tokens ----
SECRET_KEY == "secret"

\* settings.jwt_expire_minutes, in the time unit of the clock.
ACCESS_TOKEN_EXPIRE_MINUTES == 1

\* The data of a token as login builds it: subject id, role and phone
\* number (auth_router.py lines 150-155).
ClaimsInputs ==
    { [sub |-> "1", user_type |-> "user", phone |-> "555-0100"],
      [sub |-> "2", user_type |-> "authority", phone |-> "555-0101"] }

\* expires_delta: None, or a timedelta of some length.
NoDelta == [given |-> FALSE, length |-> 0]
Delta(n) == [given |-> TRUE, length |-> n]
DeltaInputs == {NoDelta} \cup {Delta(n) : n \in 0..MaxDelta}

\* Line 37: expires_delta or timedelta(minutes=ACCESS_TOKEN_EXPIRE_MINUTES);
\* None and timedelta(0) are both falsy.
ExpiresIn(d) ==
    IF d.given /\ d.length # 0 THEN d.length ELSE ACCESS_TOKEN_EXPIRE_MINUTES

\* jwt.encode(to_encode, SECRET_KEY, algorithm=ALGORITHM): the payload,
\* signed with the key.
JwtEncode(payload, key) == [payload |-> payload, key |-> key]

Invalid == [kind |-> "invalid"]
Claims(payload) == [kind |-> "claims", payload |-> payload]

\* An exception leaving a call.
Raised(exc) == [kind |-> "raise", exc |-> exc]

\* What "except JWTError" catches: the class and its subclasses.
JWTErrors == {"JWTError", "ExpiredSignatureError", "JWTClaimsError"}

\* A key other than the server's.
OtherKeys == {"other-secret"}

\* Text that is not a signed token (no three segments).
NotAJwt == [segments |-> "abc"]

IsJws(tok) == DOMAIN tok = {"payload", "key"}

\* The same decoding without the signature check.
JwtDecode_NoSignatureCheck(tok, key, now) ==
    IF ~IsJws(tok) THEN Raised("JWTError")
    ELSE IF tok.payload.exp < now THEN Raised("ExpiredSignatureError")
    ELSE Claims(tok.payload)

\* The same decoding without the expiry check.
JwtDecode_NoExpiryCheck(tok, key, now) ==
    IF ~IsJws(tok) THEN Raised("JWTError")
    ELSE IF tok.key # key THEN Raised("JWTError")
    ELSE Claims(tok.payload)

\* jwt.decode(token, SECRET_KEY, algorithms=[ALGORITHM]): the payload when
\* the text is a signed token, the signature matches and exp has not
\* passed; a JWTError otherwise (ExpiredSignatureError when exp < now).
JwtDecode(tok, key, now) ==
    IF ~IsJws(tok) THEN Raised("JWTError")
    ELSE IF tok.key # key THEN Raised("JWTError")
    ELSE IF tok.payload.exp < now THEN Raised("ExpiredSignatureError")
    ELSE Claims(tok.payload)

\* Lines 44-47: the decoded payload, None for a JWTError, and any other
\* exception passes to the caller.
VerifyTokenReturn(tok, now) ==
    LET r == JwtDecode(tok, SECRET_KEY, now)
    IN  IF r.kind = "raise" /\ r.exc \in JWTErrors THEN Invalid ELSE r

\* Lines 36-39: copy the data, set exp, sign.
AccessToken(data, d, now) ==
    [kind |-> "token", data |-> data, delta |-> d, at |-> now,
     token |-> JwtEncode([exp |-> now + ExpiresIn(d)] @@ data, SECRET_KEY)]

\* create_access_token(data, expires_delta)
CreateAccessToken(data, d) ==
    /\ issued' = AccessToken(data, d, clock)
    /\ UNCHANGED << llm, registering, clock, verified, db, outcome >>

\* Lines 44-47: verify_token of the token created last.
VerifyToken ==
    /\ issued.kind = "token"
    /\ verified' = [kind |-> "verified", of |-> issued, at |-> clock,
                    result |-> VerifyTokenReturn(issued.token, clock)]
    /\ UNCHANGED << llm, registering, clock, issued, db, outcome >>

\* What a client can send to /auth/verify-token: any text, a token signed
\* with another key, or the token it was given.
ForgedTokens ==
    {JwtEncode([exp |-> MaxClock + 1] @@ data, k) : data \in ClaimsInputs, k \in OtherKeys}

PresentedTokens ==
    {NotAJwt} \cup ForgedTokens \cup (IF issued.kind = "token" THEN {issued.token} ELSE {})

\* auth_router.py lines 186-192: 401 when verify_token returns nothing,
\* else the payload; an exception would surface as a server error.
VerifyTokenEndpoint(tok) ==
    /\ verified' = LET r == VerifyTokenReturn(tok, clock)
                   IN  [kind |-> "endpoint", token |-> tok, at |-> clock, result |-> r,
                        status |-> IF r.kind = "raise" THEN "500"
                                   ELSE IF r = Invalid THEN "401" ELSE "200"]
    /\ UNCHANGED << llm, registering, clock, issued, db, outcome >>

\* Time passes.
Tick ==
    /\ clock < MaxClock
    /\ clock' = clock + 1
    /\ UNCHANGED << llm, registering, issued, verified, db, outcome >>

InitToken ==
    /\ LlmInit({{}})
    /\ api_key = ""
    /\ project_id = ""
    /\ model_id = DEFAULT_MODEL_ID
    /\ AuthInit

NextToken ==
    \/ \E data \in ClaimsInputs, d \in DeltaInputs : CreateAccessToken(data, d)
    \/ VerifyToken
    \/ \E tok \in PresentedTokens : VerifyTokenEndpoint(tok)
    \/ Tick

SpecToken == InitToken /\ [][NextToken]_vars

\* ----------------------------------------------------- subject store ----
\* UserType.USER and UserType.AUTHORITY, by value, and a stored role value
\* that is neither.
USER == "user"
AUTHORITY == "authority"
UserType == {USER, AUTHORITY}
LegacyRoles == {"admin"}

\* Request values. A phone number is any text of 10 to 20 characters, so
\* text that is also an e-mail address can be registered as one.
Phones == {"5550100000", "alice@x.com"}
Emails == {None, "", "alice@x.com"}
Passwords == {"pw1", "pw2"}
Identifiers == Phones \cup (Emails \ {None})

\* Column values: NULL, a timestamp, a bcrypt hash of a password, and text
\* that is not a hash.
Null == [kind |-> "null"]
At(t) == [kind |-> "at", time |-> t]
Str(text) == [kind |-> "str", text |-> text]

\* pwd_context.hash(password)
GetPasswordHash(password) == [kind |-> "bcrypt", password |-> password]

\* isinstance(password_hash, str)
IsInstanceStr(v) == v.kind \in {"str", "bcrypt"}

\* pwd_context.verify(plain, hashed): raises UnknownHashError for text that
\* is not a hash of a configured scheme, else tells whether plain matches.
Identify(hashed) == hashed.kind = "bcrypt"
VerifyPassword(plain_password, hashed_password) == hashed_password.password = plain_password

\* What the service functions return.
NoneResult == [kind |-> "none"]
UserResult(id) == [kind |-> "user", id |-> id]
ErrorResult(msg) == [kind |-> "error", error |-> msg]

\* User(...) as the register functions build it.
NewUser(phone_number, email, hashed_password, user_type) ==
    [phone_number |-> phone_number, email |-> email, password_hash |-> hashed_password,
     user_type |-> user_type, is_active |-> TRUE, last_login |-> Null]

Ids == 1..Len(users)

\* .filter((User.phone_number == identifier) | (User.email == identifier))
Matches(identifier) ==
    {i \in Ids : users[i].phone_number = identifier \/ users[i].email = identifier}

\* .first() of a query without ORDER BY: any one matching row, or none.
NoRow == 0
First(rows) == IF rows = {} THEN {NoRow} ELSE rows

\* The same checks without the is_active test.
AuthResult_ActiveUnchecked(first, password) ==
    IF first = NoRow THEN NoneResult
    ELSE IF ~IsInstanceStr(users[first].password_hash) THEN NoneResult
    ELSE IF ~Identify(users[first].password_hash) THEN Raised("UnknownHashError")
    ELSE IF ~VerifyPassword(password, users[first].password_hash) THEN NoneResult
    ELSE UserResult(first)

\* Lines 57-73 of authenticate_user for the row the query returned.
AuthResult(first, password) ==
    IF first = NoRow THEN NoneResult
    ELSE IF ~IsInstanceStr(users[first].password_hash) THEN NoneResult
    ELSE IF ~Identify(users[first].password_hash) THEN Raised("UnknownHashError")
    ELSE IF ~VerifyPassword(password, users[first].password_hash) THEN NoneResult
    ELSE IF ~users[first].is_active THEN NoneResult
    ELSE UserResult(first)

\* Mutant: lines 70-71 moved before the checks of lines 60-68.
Authenticate_StampBeforeChecks(first, r) ==
    users' = IF first # NoRow THEN [users EXCEPT ![first].last_login = At(clock)] ELSE users

\* Lines 70-72: last_login is set and committed on success only.
Authenticate(first, r) ==
    users' = IF r.kind = "user" THEN [users EXCEPT ![first].last_login = At(clock)] ELSE users

\* authenticate_user(db, identifier, password)
AuthenticateUser(identifier, password) ==
    /\ \E first \in First(Matches(identifier)) :
         LET r == AuthResult(first, password)
         IN  /\ Authenticate(first, r)
             /\ outcome' = [op |-> "authenticate_user", identifier |-> identifier,
                            password |-> password, first |-> first, result |-> r]
    /\ UNCHANGED << llm, registering, clock, issued, verified, feedback, announcements >>

\* The register endpoints: 400 for an error dict, 500 for an exception.
RegisterStatus(r) ==
    IF r.kind = "error" THEN "400" ELSE IF r.kind = "raise" THEN "500" ELSE "200"

PhoneTaken(phone_number) == \E i \in Ids : users[i].phone_number = phone_number
EmailTaken(email) == \E i \in Ids : users[i].email = email

\* The same checks with the phone number test left out.
RegisterConflict_NoPhoneCheck(phone_number, email, email_required) ==
    IF (email_required \/ Truthy(email)) /\ EmailTaken(email)
    THEN ErrorResult("Email already registered")
    ELSE NoneResult

\* The same checks with the e-mail test left out.
RegisterConflict_NoEmailCheck(phone_number, email, email_required) ==
    IF PhoneTaken(phone_number) THEN ErrorResult("Phone number already registered")
    ELSE NoneResult

\* Lines 85-89 and 119-123: the conflict a registration meets, if any;
\* register_user makes the e-mail test only for a truthy e-mail.
RegisterConflict(phone_number, email, email_required) ==
    IF PhoneTaken(phone_number) THEN ErrorResult("Phone number already registered")
    ELSE IF (email_required \/ Truthy(email)) /\ EmailTaken(email)
    THEN ErrorResult("Email already registered")
    ELSE NoneResult

\* db.add, db.commit, db.refresh of a new row, or the error dict.
Register(op, phone_number, password, email, conflict, row) ==
    LET r == IF conflict.kind = "error" THEN conflict ELSE UserResult(Len(users) + 1)
    IN  /\ users' = IF r.kind = "user" THEN Append(users, row) ELSE users
        /\ outcome' = [op |-> op, phone_number |-> phone_number, password |-> password,
                       email |-> email, result |-> r, status |-> RegisterStatus(r)]
        /\ UNCHANGED << llm, registering, clock, issued, verified, feedback, announcements >>

\* register_user(db, name, phone_number, password, email)
RegisterUser(phone_number, password, email) ==
    Register("register_user", phone_number, password, email,
             RegisterConflict(phone_number, email, FALSE),
             NewUser(phone_number, email, GetPasswordHash(password), USER))

\* register_authority(db, name, position, feedback_route, phone_number,
\* email, password); email is a str here.
RegisterAuthority(phone_number, email, password) ==
    Register("register_authority", phone_number, password, email,
             RegisterConflict(phone_number, email, TRUE),
             NewUser(phone_number, email, GetPasswordHash(password), AUTHORITY))

\* Rows the table can hold when the process starts: a deactivated
\* subject, one without a stored hash, one with a role value outside the
\* enumeration.
SeededRows ==
    { [NewUser("5550100000", None, GetPasswordHash("pw1"), USER) EXCEPT !.is_active = FALSE],
      [NewUser("5550100000", None, GetPasswordHash("pw1"), USER) EXCEPT !.password_hash = Null],
      NewUser("5550100000", None, GetPasswordHash("pw1"), "admin") }

InitialStores == {<< >>} \cup {<< row >> : row \in SeededRows}

InitStore ==
    /\ LlmInit({{}})
    /\ api_key = ""
    /\ project_id = ""
    /\ model_id = DEFAULT_MODEL_ID
    /\ TokenInit
    /\ DbInit(InitialStores)

NextStore ==
    \/ \E phone_number \in Phones, password \in Passwords, email \in Emails :
         RegisterUser(phone_number, password, email)
    \/ \E phone_number \in Phones, password \in Passwords, email \in Emails \ {None} :
         RegisterAuthority(phone_number, email, password)
    \/ \E identifier \in Identifiers, password \in Passwords :
         AuthenticateUser(identifier, password)

SpecStore == InitStore /\ [][NextStore]_vars

\* ------------------------------------------------------- role gates ----
\* str(user.id) and int(user_id)
IdStr == << "1", "2", "3" >>
ToStr(id) == IdStr[id]
IsIntStr(text) == \E id \in 1..Len(IdStr) : IdStr[id] = text
ToInt(text) == CHOOSE id \in 1..Len(IdStr) : IdStr[id] = text

\* The tables of a deployment in use: a citizen and an authority, or a
\* subject whose stored role is outside the enumeration.
CitizenRow == NewUser("5550100000", None, GetPasswordHash("pw1"), USER)
AuthorityRow == NewUser("5550100001", "mayor@city.gov", GetPasswordHash("pw1"), AUTHORITY)
LegacyRow == NewUser("5550100000", None, GetPasswordHash("pw1"), "admin")

AccessStores == { << CitizenRow, AuthorityRow >>, << LegacyRow >> }

LoginIdentifiers == {"5550100000", "5550100001"}

\* auth_router.py lines 150-154
TokenData(id, user_type, phone_number) ==
    [sub |-> ToStr(id), user_type |-> user_type, phone |-> phone_number]

\* HTTPBearer(auto_error=False): no Authorization header.
NoCredentials == [credentials |-> None]

\* What a request can carry as its bearer token: none, text that is no
\* token, a token signed with another key, or the token login returned.
Credentials ==
    {NoCredentials, NotAJwt}
    \cup {JwtEncode([exp |-> MaxClock + 1] @@ TokenData(1, AUTHORITY, "5550100001"), k) : k \in OtherKeys}
    \cup (IF issued.kind = "token" THEN {issued.token} ELSE {})

Unauthorized(detail) == [status |-> "401", detail |-> detail, steps |-> << "verify_token" >>]
Forbidden(detail, id) ==
    [status |-> "403", detail |-> detail, user |-> id, steps |-> << "verify_token", "role_check" >>]
Admitted(id) == [status |-> "200", user |-> id, steps |-> << "verify_token", "role_check" >>]
CurrentUser(id) == [status |-> "200", user |-> id, steps |-> << "verify_token" >>]

\* Mutant: line 39 without the test of is_active.
GetCurrentUser_ActiveUnchecked(credentials, now) ==
    IF credentials = NoCredentials THEN Unauthorized("Not authenticated")
    ELSE LET payload == VerifyTokenReturn(credentials, now)
         IN  IF payload.kind = "raise" THEN payload
             ELSE IF payload = Invalid THEN Unauthorized("Invalid or expired token")
             ELSE IF ~Truthy(payload.payload.sub) THEN Unauthorized("Invalid token payload")
             ELSE IF ~IsIntStr(payload.payload.sub) THEN Unauthorized("Invalid token subject")
             ELSE IF ToInt(payload.payload.sub) \notin Ids
                  THEN Unauthorized("User inactive or not found")
             ELSE CurrentUser(ToInt(payload.payload.sub))

\* dependencies.py lines 15-42: the subject of a valid token, if it exists
\* and is active; 401 otherwise.
GetCurrentUser(credentials, now) ==
    IF credentials = NoCredentials THEN Unauthorized("Not authenticated")
    ELSE LET payload == VerifyTokenReturn(credentials, now)
         IN  IF payload.kind = "raise" THEN payload
             ELSE IF payload = Invalid THEN Unauthorized("Invalid or expired token")
             ELSE IF ~Truthy(payload.payload.sub) THEN Unauthorized("Invalid token payload")
             ELSE IF ~IsIntStr(payload.payload.sub) THEN Unauthorized("Invalid token subject")
             ELSE IF ToInt(payload.payload.sub) \notin Ids
                     \/ ~users[ToInt(payload.payload.sub)].is_active
                  THEN Unauthorized("User inactive or not found")
             ELSE CurrentUser(ToInt(payload.payload.sub))

\* Lines 49-54 and 67-72: the role as a UserType, None when the stored
\* value is not one (ValueError).
CurrentRole(user) == IF user.user_type \in UserType THEN user.user_type ELSE None

\* A gate that admits every authenticated subject.
RequireRole_Any(required_role, id) == Admitted(id)

\* require_role(required_role).role_checker, lines 48-58
RequireRole(required_role, id) ==
    IF CurrentRole(users[id]) # required_role
    THEN Forbidden("Insufficient permissions", id)
    ELSE Admitted(id)

\* require_any_role(*allowed_roles).role_checker, lines 66-76
RequireAnyRole(allowed_roles, id) ==
    IF allowed_roles # {} /\ CurrentRole(users[id]) \notin allowed_roles
    THEN Forbidden("Insufficient permissions", id)
    ELSE Admitted(id)

\* The gates a route can declare.
RequireRoleOf(required_role) == [kind |-> "require_role", roles |-> {required_role}]
RequireAnyRoleOf(allowed_roles) == [kind |-> "require_any_role", roles |-> allowed_roles]
Checkers ==
    {RequireRoleOf(r) : r \in UserType} \cup {RequireAnyRoleOf(S) : S \in SUBSET UserType}

RoleChecker(checker, id) ==
    IF checker.kind = "require_role"
    THEN RequireRole(CHOOSE r \in checker.roles : TRUE, id)
    ELSE RequireAnyRole(checker.roles, id)

\* The dependency without its role check.
Depends_NoRoleCheck(checker, credentials, now) == GetCurrentUser(credentials, now)

\* Mutant: the role check made on the user_type claim of the token.
Depends_RoleFromClaim(checker, credentials, now) ==
    LET current_user == GetCurrentUser(credentials, now)
    IN  IF current_user.status # "200" THEN current_user
        ELSE IF checker.roles # {} /\ credentials.payload.user_type \notin checker.roles
        THEN Forbidden("Insufficient permissions", current_user.user)
        ELSE Admitted(current_user.user)

\* Depends(checker): get_current_user, then the role check.
Depends(checker, credentials, now) ==
    LET current_user == GetCurrentUser(credentials, now)
    IN  IF current_user.status # "200" THEN current_user
        ELSE RoleChecker(checker, current_user.user)

\* A request to a route that declares the gate and does nothing else.
Gate(checker, credentials) ==
    /\ outcome' = [op |-> "gate", checker |-> checker, credentials |-> credentials,
                   answer |-> Depends(checker, credentials, clock)]
    /\ UNCHANGED << llm, registering, clock, issued, verified, db >>

\* auth_router.py lines 143-148: the role put in the token and in the
\* response; a stored value outside the enumeration becomes UserType.USER.
LoginRole(user) == IF user.user_type \in UserType THEN user.user_type ELSE USER

\* POST /auth/login, lines 125-184
Login(identifier, password) ==
    /\ \E first \in First(Matches(identifier)) :
         LET r == AuthResult(first, password)
         IN  /\ Authenticate(first, r)
             /\ IF r.kind = "user"
                THEN /\ issued' = AccessToken(TokenData(first, LoginRole(users[first]),
                                                        users[first].phone_number),
                                              NoDelta, clock)
                     /\ outcome' = [op |-> "login", identifier |-> identifier, status |-> "200",
                                    user |-> first, user_type |-> LoginRole(users[first])]
                ELSE /\ issued' = issued
                     /\ outcome' = [op |-> "login", identifier |-> identifier,
                                    status |-> IF r.kind = "raise" THEN "500" ELSE "401"]
    /\ UNCHANGED << llm, registering, clock, verified, feedback, announcements >>

\* The active flag of a subject is cleared (by a writer outside these
\* files).
Deactivate(id) ==
    /\ users[id].is_active
    /\ users' = [users EXCEPT ![id].is_active = FALSE]
    /\ outcome' = [op |-> "deactivate", user |-> id, at |-> clock]
    /\ UNCHANGED << llm, registering, clock, issued, verified, feedback, announcements >>

InitAccess ==
    /\ LlmInit({{}})
    /\ api_key = ""
    /\ project_id = ""
    /\ model_id = DEFAULT_MODEL_ID
    /\ TokenInit
    /\ DbInit(AccessStores)

NextAccess ==
    \/ \E identifier \in LoginIdentifiers, password \in Passwords : Login(identifier, password)
    \/ \E checker \in Checkers, credentials \in Credentials : Gate(checker, credentials)
    \/ \E id \in Ids : Deactivate(id)
    \/ Tick

SpecAccess == InitAccess /\ [][NextAccess]_vars

\* Sessions: tokens minted at login and verified while time passes and
\* subjects change.
NextSession ==
    \/ \E identifier \in LoginIdentifiers, password \in Passwords : Login(identifier, password)
    \/ \E tok \in PresentedTokens : VerifyTokenEndpoint(tok)
    \/ \E id \in Ids : Deactivate(id)
    \/ Tick

SpecSession == InitAccess /\ [][NextSession]_vars

\* ------------------------------------------------- gated operations ----
\* FeedbackStatus, and the status an update request asks for.
FeedbackStatus == {"reported", "in_process", "solved"}
UpdateStatuses == {"solved"}

\* getattr(authority_obj, "feedback_route", "") or "": the column is NULL
\* for a row registered without a route.
FeedbackRoute(user) ==
    IF "feedback_route" \in DOMAIN user THEN user.feedback_route ELSE ""

\* route.strip().lower(), for the routes the tables hold.
StripLower(route) ==
    IF route \in {"mayor's office", " Mayor's Office "} THEN "mayor's office"
    ELSE IF route = "Roads " THEN "roads"
    ELSE route

\* Mutant: line 96 replaced by True.
MayorsOffice_Everyone == Ids

\* Lines 95-96: the subjects for which is_mayor_route holds.
MayorsOffice == {id \in Ids : StripLower(FeedbackRoute(users[id])) = "mayor's office"}

\* Feedback(user_id=..., status=FeedbackStatus.REPORTED) of a payload
\* without authority_type: authority_id stays unset (NoRow).
NewFeedback(user_id) ==
    [user_id |-> user_id, status |-> "reported", authority_id |-> NoRow]

\* Announcement(author_id=...); a deleted row keeps its id.
NewAnnouncement(author_id) == [author_id |-> author_id, deleted |-> FALSE]

\* The role each route declares in Depends(require_role(...)).
RequiredRole(op) ==
    IF op \in {"submit_feedback", "list_my_feedback"} THEN USER ELSE AUTHORITY

\* The dependency of a route: FastAPI resolves it before the handler body
\* runs and answers with its HTTPException when it raises one.
Gated(op, credentials) == Depends(RequireRoleOf(RequiredRole(op)), credentials, clock)

\* The handler body ran and answered with this status.
Handled(gate, status) ==
    [status |-> status, user |-> gate.user, steps |-> Append(gate.steps, "handler")]

Respond(op, credentials, answer) ==
    outcome' = [op |-> op, credentials |-> credentials, answer |-> answer]

\* POST /feedback/submit, lines 83-119
SubmitFeedback(credentials) ==
    LET gate == Gated("submit_feedback", credentials)
    IN  /\ gate.status = "200" => Len(feedback) + Len(announcements) < MaxRows
        /\ IF gate.status # "200"
           THEN /\ feedback' = feedback
                /\ Respond("submit_feedback", credentials, gate)
           ELSE /\ feedback' = Append(feedback, NewFeedback(gate.user))
                /\ Respond("submit_feedback", credentials, Handled(gate, "201"))
        /\ UNCHANGED << llm, registering, clock, issued, verified, users, announcements >>

\* GET /feedback/my, lines 122-134
ListMyFeedback(credentials) ==
    LET gate == Gated("list_my_feedback", credentials)
    IN  /\ Respond("list_my_feedback", credentials,
                   IF gate.status # "200" THEN gate ELSE Handled(gate, "200"))
        /\ UNCHANGED << llm, registering, clock, issued, verified, db >>

\* GET /feedback/manage, lines 138-165
ListFeedbackForAuthority(credentials) ==
    LET gate == Gated("list_feedback_for_authority", credentials)
    IN  /\ Respond("list_feedback_for_authority", credentials,
                   IF gate.status # "200" THEN gate ELSE Handled(gate, "200"))
        /\ UNCHANGED << llm, registering, clock, issued, verified, db >>

\* PATCH /feedback/{feedback_id}, lines 168-190
UpdateFeedbackStatus(credentials, feedback_id, status) ==
    LET gate == Gated("update_feedback_status", credentials)
    IN  /\ IF gate.status # "200"
           THEN /\ feedback' = feedback
                /\ Respond("update_feedback_status", credentials, gate)
           ELSE IF feedback_id \notin 1..Len(feedback)
           THEN /\ feedback' = feedback
                /\ Respond("update_feedback_status", credentials, Handled(gate, "404"))
           ELSE /\ feedback' = [feedback EXCEPT ![feedback_id].status = status,
                                                ![feedback_id].authority_id = gate.user]
                /\ Respond("update_feedback_status", credentials, Handled(gate, "200"))
        /\ UNCHANGED << llm, registering, clock, issued, verified, users, announcements >>

\* POST /announcements/, lines 59-78
CreateAnnouncement(credentials) ==
    LET gate == Gated("create_announcement", credentials)
    IN  /\ gate.status = "200" => Len(feedback) + Len(announcements) < MaxRows
        /\ IF gate.status # "200"
           THEN /\ announcements' = announcements
                /\ Respond("create_announcement", credentials, gate)
           ELSE /\ announcements' = Append(announcements, NewAnnouncement(gate.user))
                /\ Respond("create_announcement", credentials, Handled(gate, "201"))
        /\ UNCHANGED << llm, registering, clock, issued, verified, users, feedback >>

\* DELETE /announcements/{announcement_id}, lines 81-115
DeleteAnnouncement(credentials, announcement_id) ==
    LET gate == Gated("delete_announcement", credentials)
    IN  /\ IF gate.status # "200"
           THEN /\ announcements' = announcements
                /\ Respond("delete_announcement", credentials, gate)
           ELSE IF \/ announcement_id \notin 1..Len(announcements)
                   \/ announcements[announcement_id].deleted
           THEN /\ announcements' = announcements
                /\ Respond("delete_announcement", credentials,
                           [id |-> announcement_id] @@ Handled(gate, "404"))
           ELSE IF announcements[announcement_id].author_id # gate.user
                   /\ gate.user \notin MayorsOffice
           THEN /\ announcements' = announcements
                /\ Respond("delete_announcement", credentials,
                           [id |-> announcement_id] @@ Handled(gate, "403"))
           ELSE /\ announcements' = [announcements EXCEPT ![announcement_id].deleted = TRUE]
                /\ Respond("delete_announcement", credentials,
                           [id |-> announcement_id] @@ Handled(gate, "204"))
        /\ UNCHANGED << llm, registering, clock, issued, verified, users, feedback >>

NextGated ==
    \/ \E identifier \in LoginIdentifiers, password \in Passwords : Login(identifier, password)
    \/ \E credentials \in Credentials : SubmitFeedback(credentials)
    \/ \E credentials \in Credentials : ListMyFeedback(credentials)
    \/ \E credentials \in Credentials : ListFeedbackForAuthority(credentials)
    \/ \E credentials \in Credentials, feedback_id \in 1..MaxRows, status \in UpdateStatuses :
         UpdateFeedbackStatus(credentials, feedback_id, status)
    \/ \E credentials \in Credentials : CreateAnnouncement(credentials)
    \/ \E credentials \in Credentials, announcement_id \in 1..MaxRows :
         DeleteAnnouncement(credentials, announcement_id)
    \/ \E id \in Ids : Deactivate(id)
    \/ Tick

\* A deployment with a citizen and an authority registered.
InitGated ==
    /\ LlmInit({{}})
    /\ api_key = ""
    /\ project_id = ""
    /\ model_id = DEFAULT_MODEL_ID
    /\ TokenInit
    /\ DbInit({<< CitizenRow, AuthorityRow >>})

SpecGated == InitGated /\ [][NextGated]_vars

\* ------------------------------------- selection run again and again ----
\* The gateway as some generate call left it: any active model, and (with
\* a credential) any availability set; _select_supported_model() is about
\* to run without force_refresh.
InitSelect ==
    /\ api_key = "key"
    /\ project_id = "project"
    /\ model_id \in Models \cup {""}
    /\ configured_model = model_id
    /\ token \in {None, "token"}
    /\ available_models \in CatalogResponses
    /\ ~Truthy(token) => available_models = {}
    /\ pc = [p \in Procs |-> IF p = Ctor THEN "select_enter" ELSE "idle"]
    /\ idx = [p \in Procs |-> 1]
    /\ payload_model = [p \in Procs |-> None]
    /\ previous_model = [p \in Procs |-> None]
    /\ response = [p \in Procs |-> Pending]
    /\ wrapper = [p \in Procs |-> None]
    /\ reply = [p \in Procs |-> Pending]
    /\ models_sent = [p \in Procs |-> << >>]
    /\ resps = [p \in Procs |-> << >>]
    /\ catalog_requests = [p \in Procs |-> 0]
    /\ changes = [p \in Procs |-> 0]
    /\ iam_result = "access_token"
    /\ remote_models = {}
    /\ AuthInit

\* self._select_supported_model() is called once more, with the active
\* model and the availability set the last run left.
SelectAgain ==
    /\ pc[Ctor] = "ready"
    /\ outcome' = [op |-> "select", model_id |-> model_id,
                   available_models |-> available_models]
    /\ pc' = [pc EXCEPT ![Ctor] = "select_enter"]
    /\ UNCHANGED << gateway, idx, payload_model, previous_model, response, wrapper,
                    reply, models_sent, resps, catalog_requests, changes, iam_result,
                    remote_models, clock, issued, verified, db, registering >>

NextSelect ==
    \/ Select(Ctor)
    \/ SelectAgain

SpecSelect == InitSelect /\ [][NextSelect]_vars

\* ------------------------------- registrations run by several workers ----
\* users.phone_number and users.email are unique columns: a commit that
\* would store a second row with the same phone number, or with the same
\* non-NULL e-mail, fails with IntegrityError.
UniqueViolation(row) ==
    \/ PhoneTaken(row.phone_number)
    \/ row.email # None /\ EmailTaken(row.email)

\* Lines 85-89 and 119-123: the two lookups of a registration, made by
\* handler t at the time it runs them; the row is built if neither finds
\* a subject.
RegisterCheck(t, op, phone_number, password, email) ==
    /\ registering[t].pc = "idle"
    /\ LET conflict == RegisterConflict(phone_number, email, op = "register_authority")
           row == NewUser(phone_number, email, GetPasswordHash(password),
                          IF op = "register_user" THEN USER ELSE AUTHORITY)
       IN  registering' = [registering EXCEPT ![t] =
               IF conflict.kind = "error"
                 THEN [pc |-> "done", op |-> op, row |-> row, result |-> conflict,
                       status |-> RegisterStatus(conflict)]
                 ELSE [pc |-> "insert", op |-> op, row |-> row, result |-> NoneResult,
                       status |-> "-"]]
    /\ UNCHANGED << llm, clock, issued, verified, db, outcome >>

\* Lines 102-106 and 138-146: db.add and db.commit of the row built after
\* the lookups. IntegrityError is not an OperationalError, so it leaves
\* register_authority as it leaves register_user, and the endpoint turns
\* it into 500 (auth_router.py lines 97-98 and 122-123).
RegisterCommit(t) ==
    /\ registering[t].pc = "insert"
    /\ LET row == registering[t].row
           r == IF UniqueViolation(row) THEN Raised("IntegrityError")
                ELSE UserResult(Len(users) + 1)
       IN  /\ users' = IF r.kind = "user" THEN Append(users, row) ELSE users
           /\ registering' = [registering EXCEPT ![t] =
                  [@ EXCEPT !.pc = "done", !.result = r, !.status = RegisterStatus(r)]]
    /\ UNCHANGED << llm, clock, issued, verified, feedback, announcements, outcome >>

NextRace ==
    \E t \in Threads :
        \/ \E phone_number \in Phones, email \in Emails \ {""} :
             RegisterCheck(t, "register_user", phone_number, "pw1", email)
        \/ \E phone_number \in Phones, email \in Emails \ {None, ""} :
             RegisterCheck(t, "register_authority", phone_number, "pw1", email)
        \/ RegisterCommit(t)

SpecRace == InitStore /\ [][NextRace]_vars

\* ------------------------------------------- announcements in use ----
\* A deployment with three authorities, the second with a route of its
\* own and the third of the mayor's office, and two announcements: one
\* published by the first authority and one whose author is unset.
AnnounceUsers ==
    << AuthorityRow,
       [feedback_route |-> "Roads "]
           @@ NewUser("5550100002", "roads@city.gov", GetPasswordHash("pw1"), AUTHORITY),
       [feedback_route |-> " Mayor's Office "]
           @@ NewUser("5550100003", "office@city.gov", GetPasswordHash("pw1"), AUTHORITY) >>

InitAnnounce ==
    /\ LlmInit({{}})
    /\ api_key = ""
    /\ project_id = ""
    /\ model_id = DEFAULT_MODEL_ID
    /\ TokenInit
    /\ users = AnnounceUsers
    /\ feedback = << >>
    /\ announcements = << NewAnnouncement(1), NewAnnouncement(NoRow) >>
    /\ outcome = NoOutcome
    /\ registering = [t \in Threads |-> NotRegistering]

NextAnnounce ==
    \/ \E id \in Ids : Login(users[id].phone_number, "pw1")
    \/ \E credentials \in Credentials, announcement_id \in 1..(Len(announcements) + 1) :
         DeleteAnnouncement(credentials, announcement_id)

SpecAnnounce == InitAnnounce /\ [][NextAnnounce]_vars

\* -------------------------------------------------------- dashboard ----
\* The mock dataset, with the air quality value of each city.
CITIES_DATA ==
    [city \in {"New York", "San Francisco", "Chicago"} |->
        [air_quality |-> IF city = "New York" THEN 42
                         ELSE IF city = "San Francisco" THEN 38 ELSE 45]]

\* GET /dashboard/city/{city_name}. The body of the try block raises
\* HTTPException(404) for a name that is not a key of CITIES_DATA, else it
\* builds the dashboard; "except Exception" catches whatever the body
\* raises, HTTPException included, and raises HTTPException(500).
GetCityDashboard(city_name) ==
    LET body == IF city_name \notin DOMAIN CITIES_DATA
                THEN [kind |-> "raise", exc |-> "HTTPException", status |-> "404"]
                ELSE [kind |-> "return", status |-> "200", city_name |-> city_name,
                      air_quality_alert |-> CITIES_DATA[city_name].air_quality > 40,
                      last_updated |-> clock]
    IN  /\ outcome' = [op |-> "get_city_dashboard", city_name |-> city_name,
                       answer |-> IF body.kind = "raise"
                                  THEN [kind |-> "raise", exc |-> "HTTPException", status |-> "500"]
                                  ELSE body]
        /\ UNCHANGED << llm, registering, clock, issued, verified, db >>

\* GET /dashboard/kpi-history/{city_name}?metric=..&days=..: the same try
\* block around the lookup and the generated history of the metric (base
\* value 100 for a metric the city has no entry for).
GetKpiHistory(city_name, metric, days) ==
    LET body == IF city_name \notin DOMAIN CITIES_DATA
                THEN [kind |-> "raise", exc |-> "HTTPException", status |-> "404"]
                ELSE [kind |-> "return", status |-> "200", city |-> city_name,
                      metric |-> metric, points |-> days,
                      base_value |-> IF metric \in DOMAIN CITIES_DATA[city_name]
                                     THEN CITIES_DATA[city_name][metric] ELSE 100,
                      last_date |-> clock]
    IN  /\ outcome' = [op |-> "get_kpi_history", city_name |-> city_name,
                       answer |-> IF body.kind = "raise"
                                  THEN [kind |-> "raise", exc |-> "HTTPException", status |-> "500"]
                                  ELSE body]
        /\ UNCHANGED << llm, registering, clock, issued, verified, db >>

\* Requests name a city of the dataset, one in another spelling, or one
\* that is unknown.
NextDashboard ==
    \/ \E city_name \in DOMAIN CITIES_DATA \cup {"new york", "Gotham"} :
         GetCityDashboard(city_name)
    \/ \E city_name \in DOMAIN CITIES_DATA \cup {"new york", "Gotham"},
          metric \in {"air_quality", "noise"}, days \in 0..MaxDays :
         GetKpiHistory(city_name, metric, days)
    \/ Tick

SpecDashboard == InitGated /\ [][NextDashboard]_vars

\* --------------------------------------- tokens that outlive the row ----
\* Tokens signed by the server at an earlier time and still unexpired,
\* whatever became of their subject since: its row may be gone and its
\* stored role may differ from the user_type claim.
SignedTokens ==
    {JwtEncode([exp |-> MaxClock] @@ TokenData(id, r, "5550100000"), SECRET_KEY) :
        id \in 1..Len(IdStr), r \in UserType}

NextClaims ==
    \/ \E identifier \in LoginIdentifiers : Login(identifier, "pw1")
    \/ \E checker \in Checkers, credentials \in Credentials \cup SignedTokens :
         Gate(checker, credentials)
    \/ \E id \in Ids : Deactivate(id)
    \/ Tick

SpecClaims == InitAccess /\ [][NextClaims]_vars

\* ------------------------------------------------------------ claims ----
Ready == pc[Ctor] = "ready"

\* _make_request has returned to the wrapper.
GenerateReturned(t) == pc[t] \in {"wrapper_return", "done"}

Last(q) == q[Len(q)]

\* The selection rule as stated: the preferred identifier if it is
\* available, else the highest-ranked available fallback, else unchanged.
RankedAvailable(S) == {i \in 1..Len(FALLBACK_MODEL_ORDER) : FALLBACK_MODEL_ORDER[i] \in S}

Expected(preferred, S) ==
    IF preferred \in S THEN preferred
    ELSE IF RankedAvailable(S) = {} THEN preferred
    ELSE FALLBACK_MODEL_ORDER[CHOOSE i \in RankedAvailable(S) :
                                \A j \in RankedAvailable(S) : i <= j]

\* C1: a generate call issues at most two generation requests and at most
\* one catalog request, whatever the remote service answers.
C1_AtMostOneRetry ==
    \A t \in Threads : Len(models_sent[t]) <= 2 /\ catalog_requests[t] <= 1

\* C2: when the first request is rejected as model-not-supported and the
\* retry with the re-selected model succeeds, generate returns the text of
\* the second request and the active model changed exactly once in the call.
C2_RetryReturnsSecondText ==
    \A t \in Threads :
        ( /\ GenerateReturned(t)
          /\ Len(resps[t]) = 2
          /\ resps[t][1] = "model_not_supported"
          /\ resps[t][2] = "generated_text" )
        => /\ response[t] = GeneratedText(models_sent[t][2])
           /\ changes[t] = 1
           /\ model_id = models_sent[t][2]

C2_Witness ==
    \E t \in Threads :
        /\ pc[t] = "done"
        /\ resps[t] = << "model_not_supported", "generated_text" >>
        /\ models_sent[t][1] # models_sent[t][2]
        /\ response[t].kind = "text"

\* C3: a further generation request is issued only after a model-not-supported
\* rejection followed by a re-selection that changed the active model; in
\* every other failure case generate returns the none outcome, without a
\* retry and without raising.
FailureCase(t) ==
    \/ ~Truthy(token)
    \/ ~Truthy(project_id)
    \/ /\ resps[t] # << >>
       /\ Last(resps[t]) \in {"malformed", "http_error", "timeout", "model_not_supported"}

C3_RetryOnlyAfterChange ==
    \A t \in Threads :
        /\ Len(models_sent[t]) <= changes[t] + 1
        /\ \A i \in 1..(Len(models_sent[t]) - 1) : resps[t][i] = "model_not_supported"
        /\ GenerateReturned(t) => response[t].kind \in {"text", "empty", "none"}
        /\ (GenerateReturned(t) /\ FailureCase(t)) => response[t] = NoneOutcome
        /\ (GenerateReturned(t) /\ ~CanIssueRequests) => models_sent[t] = << >>

C3_Witness ==
    \E t \in Threads :
        /\ pc[t] = "done"
        /\ resps[t] = << "model_not_supported" >>
        /\ catalog_requests[t] = 1
        /\ changes[t] = 0
        /\ response[t] = NoneOutcome

\* C4: after a selection over a non-empty availability set the active model
\* is the preferred identifier if it is in the set, else the first member of
\* the fallback ranking in the set, else the preferred identifier.
C4_SelectionRule ==
    [][ /\ (pc[Ctor] # "ready" /\ pc'[Ctor] = "ready" /\ available_models' # {})
           => model_id' = Expected(configured_model, available_models')
        /\ \A t \in Threads :
             (pc[t] # "compare" /\ pc'[t] = "compare" /\ available_models' # {})
             => model_id' = Expected(previous_model[t], available_models') ]_vars

C4_Witness ==
    \E t \in Threads :
        /\ pc[t] = "compare"
        /\ previous_model[t] = FALLBACK_MODEL_ORDER[1]
        /\ available_models = {FALLBACK_MODEL_ORDER[2], FALLBACK_MODEL_ORDER[3]}
        /\ model_id = FALLBACK_MODEL_ORDER[2]

\* C5: whenever no call is in progress after initialization, the active
\* model is the configured identifier if that is in the current availability
\* set, else the highest-ranked fallback in it, else the configured one.
\* (An empty or unreachable set is read as leaving the active model as it
\* was, whatever that is.)
C5_ActiveModelInvariant ==
    (Ready /\ available_models # {} /\ \A t \in Threads : pc[t] = "idle")
    => model_id = Expected(configured_model, available_models)

\* C6: two concurrent generate calls that are both rejected as
\* model-not-supported each return what they return when run one after
\* the other: text if a ranked model is supported, none otherwise.
BothRejected ==
    \A t \in Threads : resps[t] # << >> /\ resps[t][1] = "model_not_supported"

SequentialKind == IF RankedAvailable(remote_models) # {} THEN "text" ELSE "none"

C7_ConstructionWithoutCredential ==
    /\ ~Ready => ENABLED (Construct \/ Select(Ctor))
    /\ (Ready /\ (~Truthy(api_key) \/ iam_result # "access_token"))
       => /\ ~Truthy(token)
          /\ available_models = {}
          /\ catalog_requests[Ctor] = 0
          /\ model_id = configured_model
    /\ ~Truthy(api_key) => iam_result = "not_asked"

C7_Witness ==
    /\ Ready
    /\ Truthy(api_key)
    /\ iam_result = "error"
    /\ token = None
    /\ available_models = {}

\* C8: once initialization has ended without a credential, no credential
\* is ever obtained, no request is sent and every generate call returns none.
C8_AlwaysFailingWithoutCredential ==
    [][ (Ready /\ ~Truthy(token))
        => /\ ~Truthy(token')
           /\ iam_result' = iam_result
           /\ catalog_requests'[Ctor] = catalog_requests[Ctor]
           /\ \A t \in Threads :
                /\ models_sent'[t] = << >>
                /\ catalog_requests'[t] = 0
                /\ response'[t] \in {Pending, NoneOutcome}
                /\ pc'[t] = "done" => response'[t] = NoneOutcome ]_vars

C8_Witness ==
    \E t \in Threads :
        /\ Ready
        /\ ~Truthy(token)
        /\ Truthy(project_id)
        /\ pc[t] = "done"
        /\ response[t] = NoneOutcome

\* C9: ask_granite, generate_summary and generate_eco_tip return the
\* generated text or their own canned text, never none or empty text.
C9_WrappersNeverFail ==
    \A t \in Threads :
        pc[t] = "done"
        => \/ reply[t].kind = "text" /\ reply[t] = response[t]
           \/ reply[t] = Canned(wrapper[t]) /\ response[t].kind \in {"none", "empty"}

C9_Witness ==
    \E t \in Threads :
        /\ pc[t] = "done"
        /\ wrapper[t] = "generate_eco_tip"
        /\ response[t] = EmptyText
        /\ reply[t] = Canned("generate_eco_tip")

\* C10: verify_token of a token created with claims and ttl returns those
\* claims at any time up to issuance + ttl and invalid at any later time.
ClaimedTtl(d) == IF d.given THEN d.length ELSE ACCESS_TOKEN_EXPIRE_MINUTES

ClaimsOf(payload, data) == [k \in DOMAIN data |-> payload[k]]

C10_TokenRoundTrip ==
    verified.kind = "verified"
    => IF verified.at <= verified.of.at + ClaimedTtl(verified.of.delta)
       THEN /\ verified.result.kind = "claims"
            /\ ClaimsOf(verified.result.payload, verified.of.data) = verified.of.data
       ELSE verified.result = Invalid

\* C11: verify_token returns the claims for a correctly signed, unexpired
\* token and the invalid outcome for every malformed, expired or mis-signed
\* one; it never raises to its caller.
PresentedOf(v) == IF v.kind = "verified" THEN v.of.token ELSE v.token

C11_VerifyTokenNeverRaises ==
    verified.kind \in {"verified", "endpoint"}
    => LET tok == PresentedOf(verified)
           good == IsJws(tok) /\ tok.key = SECRET_KEY /\ tok.payload.exp >= verified.at
       IN  /\ verified.result.kind # "raise"
           /\ good => verified.result = Claims(tok.payload)
           /\ ~good => verified.result = Invalid
           /\ verified.kind = "endpoint"
              => verified.status = (IF good THEN "200" ELSE "401")

C11_Witness ==
    /\ verified.kind = "endpoint"
    /\ verified.token \in ForgedTokens
    /\ verified.result = Invalid
    /\ verified.status = "401"

\* C13: authenticate_user returns None when no subject has the identifier
\* as phone number or e-mail, when the matched subject has no stored hash,
\* when the password does not match the stored hash, and when it matches
\* but the subject is inactive.
C13_AuthenticateFailures ==
    outcome.op = "authenticate_user"
    => /\ Matches(outcome.identifier) = {} => outcome.result = NoneResult
       /\ outcome.first # NoRow
          => LET user == users[outcome.first]
             IN  /\ user.password_hash = Null => outcome.result = NoneResult
                 /\ (user.password_hash \in {GetPasswordHash(p) : p \in Passwords \ {outcome.password}})
                    => outcome.result = NoneResult
                 /\ (user.password_hash = GetPasswordHash(outcome.password) /\ ~user.is_active)
                    => outcome.result = NoneResult

C13_Witness ==
    /\ outcome.op = "authenticate_user"
    /\ outcome.first # NoRow
    /\ users[outcome.first].password_hash = GetPasswordHash(outcome.password)
    /\ ~users[outcome.first].is_active
    /\ outcome.result = NoneResult

\* C14: authenticate_user called with the phone number or the e-mail of an
\* active subject with a stored hash, and that subject's password, returns
\* that subject.
C14_AuthenticateReturnsSubject ==
    outcome.op = "authenticate_user"
    => \A i \in Ids :
         ( /\ users[i].is_active
           /\ users[i].password_hash = GetPasswordHash(outcome.password)
           /\ Truthy(outcome.identifier)
           /\ outcome.identifier \in {users[i].phone_number, users[i].email} )
         => outcome.result = UserResult(i)

\* C15: a registration whose phone number, or whose non-empty e-mail, is
\* already held returns the conflict outcome and writes nothing; repeating
\* a registration that succeeded conflicts and leaves one row for it.
RowsWithPhone(table, phone_number) ==
    {i \in 1..Len(table) : table[i].phone_number = phone_number}

IsRegistration(o) == o.op \in {"register_user", "register_authority"}

C15_ConflictWritesNothing ==
    [][ IsRegistration(outcome')
        => /\ ( \/ PhoneTaken(outcome'.phone_number)
                \/ Truthy(outcome'.email) /\ EmailTaken(outcome'.email) )
              => /\ outcome'.result.kind = "error"
                 /\ outcome'.status = "400"
                 /\ users' = users
           /\ ( /\ IsRegistration(outcome)
                /\ outcome.result.kind = "user"
                /\ outcome'.op = outcome.op
                /\ outcome'.phone_number = outcome.phone_number
                /\ outcome'.password = outcome.password
                /\ outcome'.email = outcome.email )
              => /\ outcome'.result.kind = "error"
                 /\ Cardinality(RowsWithPhone(users', outcome'.phone_number)) = 1 ]_vars

C15_Witness ==
    /\ outcome.op = "register_authority"
    /\ outcome.result = ErrorResult("Phone number already registered")
    /\ Len(users) = 1
    /\ users[1] = NewUser(outcome.phone_number, outcome.email,
                          GetPasswordHash(outcome.password), AUTHORITY)

\* C16: after any sequence of registrations no two subjects have the same
\* phone number and no two have the same non-empty e-mail.
C16_UniquePhoneAndEmail ==
    \A i, j \in Ids :
        i # j => /\ users[i].phone_number # users[j].phone_number
                 /\ Truthy(users[i].email) => users[i].email # users[j].email

C16_Witness ==
    /\ Len(users) = 1
    /\ users[1].email = "alice@x.com"
    /\ IsRegistration(outcome)
    /\ outcome.phone_number # users[1].phone_number
    /\ outcome.result = ErrorResult("Email already registered")

\* C17: a successful registration stores a hash of the password, not the
\* password, marks the subject active and gives it the role of the function
\* called; authenticate_user called next with the registered phone number
\* and the same password returns that subject.
Registered(o) == IsRegistration(o) /\ o.result.kind = "user"

C17_RegisteredThenAuthenticates ==
    [][ /\ Registered(outcome')
           => LET user == users'[outcome'.result.id]
              IN  /\ outcome'.result.id = Len(users) + 1
                  /\ user.password_hash = GetPasswordHash(outcome'.password)
                  /\ user.password_hash # Str(outcome'.password)
                  /\ user.is_active
                  /\ user.phone_number = outcome'.phone_number
                  /\ user.user_type = (IF outcome'.op = "register_user" THEN USER ELSE AUTHORITY)
        /\ ( /\ Registered(outcome)
             /\ outcome'.op = "authenticate_user"
             /\ outcome'.identifier = outcome.phone_number
             /\ outcome'.password = outcome.password )
           => outcome'.result = UserResult(outcome.result.id) ]_vars

\* C12: a token minted at login verifies as valid at every instant up to
\* its expiry, whatever happens to its subject (deactivation included),
\* and as invalid at every later instant; a token that has verified as
\* invalid never verifies as valid again.
ServerSigned(tok) == IsJws(tok) /\ tok.key = SECRET_KEY

C12_TokenLifecycle ==
    [][ verified'.kind = "endpoint"
        => /\ ServerSigned(verified'.token)
              => verified'.result = (IF verified'.at <= verified'.token.payload.exp
                                     THEN Claims(verified'.token.payload)
                                     ELSE Invalid)
           /\ ( /\ verified.kind = "endpoint"
                /\ verified.token = verified'.token
                /\ verified.result = Invalid )
              => verified'.result = Invalid ]_vars

C12_Witness ==
    /\ verified.kind = "endpoint"
    /\ verified.result.kind = "claims"
    /\ outcome.op = "deactivate"
    /\ ToStr(outcome.user) = verified.token.payload.sub
    /\ outcome.at < verified.at
    /\ ~users[outcome.user].is_active

\* C18: for an authenticated subject, require_role(r) admits the subject
\* when its role is r and answers 403 when its role is the other one;
\* require_any_role(USER, AUTHORITY) admits both roles.
Authenticated(o) == o.op = "gate" /\ o.answer.status # "401"

C18_RoleGates ==
    Authenticated(outcome)
    => LET id == outcome.answer.user
           role == users[id].user_type
       IN  /\ id = ToInt(outcome.credentials.payload.sub)
           /\ \A r \in UserType :
                (outcome.checker = RequireRoleOf(r) /\ role \in UserType)
                => outcome.answer.status = (IF role = r THEN "200" ELSE "403")
           /\ (outcome.checker = RequireAnyRoleOf(UserType) /\ role \in UserType)
              => outcome.answer.status = "200"

C18_Witness ==
    /\ Authenticated(outcome)
    /\ outcome.checker = RequireRoleOf(AUTHORITY)
    /\ users[outcome.answer.user].user_type = USER
    /\ outcome.answer.status = "403"

\* C19: a subject whose stored role is neither USER nor AUTHORITY is
\* answered 401 or 403 by every role gate, and is nowhere given the role
\* USER or AUTHORITY: not in a login response, not in a token.
OutsideEnumeration(id) == users[id].user_type \notin UserType

C19_LegacyRoleRejected ==
    /\ (Authenticated(outcome) /\ OutsideEnumeration(outcome.answer.user))
       => outcome.answer.status = "403"
    /\ (outcome.op = "gate" /\ outcome.answer.status = "401")
       => "kind" \notin DOMAIN outcome.answer
    /\ (outcome.op = "login" /\ outcome.status = "200" /\ OutsideEnumeration(outcome.user))
       => outcome.user_type \notin UserType
    /\ (issued.kind = "token" /\ OutsideEnumeration(ToInt(issued.data.sub)))
       => issued.data.user_type \notin UserType

\* The gated routes, and what a request to one carries.
IsGated(o) ==
    o.op \in {"submit_feedback", "list_my_feedback", "list_feedback_for_authority",
              "update_feedback_status", "create_announcement", "delete_announcement"}

ValidToken(credentials) ==
    /\ credentials # NoCredentials
    /\ ServerSigned(credentials)
    /\ clock <= credentials.payload.exp

SubjectOf(credentials) == ToInt(credentials.payload.sub)

WrongRole(o) == users[SubjectOf(o.credentials)].user_type # RequiredRole(o.op)

GateThenEffect(o) ==
    /\ db' # db => /\ ValidToken(o.credentials)
                   /\ ~WrongRole(o)
                   /\ o.answer.steps = << "verify_token", "role_check", "handler" >>
                   /\ o.answer.status \in {"200", "201", "204"}
    /\ ~ValidToken(o.credentials)
       => /\ o.answer.status = "401"
          /\ o.answer.steps = << "verify_token" >>
          /\ db' = db

\* A step of a gated handler: the last call is a gated one and no time has
\* passed.
HandlerStep == IsGated(outcome') /\ clock' = clock

C22_SelectionIdempotent ==
    (Ready /\ outcome.op = "select")
    => /\ available_models = outcome.available_models
       /\ model_id = outcome.model_id

C22_Witness ==
    /\ Ready
    /\ outcome.op = "select"
    /\ configured_model = FALLBACK_MODEL_ORDER[1]
    /\ available_models = {FALLBACK_MODEL_ORDER[2], FALLBACK_MODEL_ORDER[3]}
    /\ model_id = FALLBACK_MODEL_ORDER[2]


\* C29: after initialization the credential is never assigned and no
\* credential exchange is requested; a generation request the remote
\* service rejects for its credential ends the call with none, without a
\* catalog request or a re-selection.
C29_CredentialFixed ==
    [][ Ready
        => /\ token' = token
           /\ iam_result' = iam_result
           /\ \A t \in Threads :
                (Len(resps'[t]) > Len(resps[t]) /\ Last(resps'[t]) = "http_error")
                => /\ pc'[t] = "wrapper_return"
                   /\ response'[t] = NoneOutcome
                   /\ catalog_requests'[t] = catalog_requests[t]
                   /\ model_id' = model_id ]_vars

C29_Witness ==
    \E t \in Threads :
        /\ Ready
        /\ token = "token"
        /\ iam_result = "access_token"
        /\ pc[t] = "done"
        /\ resps[t] = << "model_not_supported", "http_error" >>
        /\ response[t] = NoneOutcome


\* C30: whenever the active model changes, its new value is a member of the
\* fallback ranking that is in the availability set as last loaded, and a
\* credential is held and that set is not empty.
C30_ChangeWithinRanking ==
    [][ model_id' # model_id
        => /\ model_id' \in RankedModels
           /\ model_id' \in available_models'
           /\ available_models' = available_models
           /\ Truthy(token')
           /\ \E p \in Procs : pc[p] = "assign" ]_vars

C30_Witness ==
    \E t \in Threads :
        /\ pc[t] = "compare"
        /\ changes[t] = 1
        /\ configured_model \in OtherModels
        /\ previous_model[t] = FALLBACK_MODEL_ORDER[1]
        /\ model_id = FALLBACK_MODEL_ORDER[4]
        /\ available_models = {FALLBACK_MODEL_ORDER[4]} \cup OtherModels


\* C23: authenticate_user writes to the store only on success, and then
\* only the last-login timestamp of the subject it returns: a failed call
\* leaves every row as it was, a successful one leaves every other field
\* and every other row as it was.
C23_AuthenticateFrame ==
    [][ outcome'.op = "authenticate_user"
        => /\ feedback' = feedback
           /\ announcements' = announcements
           /\ IF outcome'.result.kind = "user"
                THEN /\ outcome'.result.id \in Ids
                     /\ users' = [users EXCEPT ![outcome'.result.id].last_login = At(clock)]
                ELSE users' = users ]_vars

C23_Witness ==
    /\ outcome.op = "authenticate_user"
    /\ outcome.result = UserResult(2)
    /\ Len(users) = 2
    /\ users[1].last_login = Null
    /\ users[2].last_login = At(clock)


\* C24: of two registrations with the same phone number, or the same
\* e-mail, that run concurrently, at most one creates a row and the other
\* ends with the conflict outcome (400), never with a server error.
SameKey(a, b) ==
    \/ a.phone_number = b.phone_number
    \/ Truthy(a.email) /\ a.email = b.email

C24_ConcurrentRegistrations ==
    \A t, u \in Threads :
        ( /\ t # u
          /\ registering[t].pc = "done"
          /\ registering[u].pc = "done"
          /\ SameKey(registering[t].row, registering[u].row) )
        => /\ ~(registering[t].status = "200" /\ registering[u].status = "200")
           /\ registering[t].status \in {"200", "400"}


\* C25: delete_announcement removes an announcement only for its author or
\* for an authority of the mayor's office; any other authority asking for
\* an announcement of someone else, or for an unowned one, is answered 403
\* and the announcement stays; an unknown id is answered 404 and nothing
\* changes.
HasMayorRoute(user) ==
    /\ "feedback_route" \in DOMAIN user
    /\ user.feedback_route \in {"mayor's office", " Mayor's Office "}

Existing(id) == id \in 1..Len(announcements) /\ ~announcements[id].deleted

C25_DeleteAnnouncement ==
    [][ /\ announcements' # announcements
           => /\ outcome'.op = "delete_announcement"
              /\ outcome'.answer.status = "204"
        /\ (outcome'.op = "delete_announcement" /\ Len(outcome'.answer.steps) = 3)
           => LET id == outcome'.answer.id
                  user == outcome'.answer.user
              IN  IF ~Existing(id)
                    THEN /\ outcome'.answer.status = "404"
                         /\ announcements' = announcements
                  ELSE IF announcements[id].author_id = user \/ HasMayorRoute(users[user])
                    THEN /\ outcome'.answer.status = "204"
                         /\ announcements' = [announcements EXCEPT ![id].deleted = TRUE]
                  ELSE /\ outcome'.answer.status = "403"
                       /\ announcements' = announcements ]_vars

C25_Witness ==
    /\ outcome.op = "delete_announcement"
    /\ outcome.answer.status = "403"
    /\ outcome.answer.user = 2
    /\ outcome.answer.id = 2
    /\ announcements[1].deleted
    /\ ~announcements[2].deleted


\* C26: get_city_dashboard and get_kpi_history answer a request for a city
\* name that is not in the dataset with 404, not with a server error.
C26_UnknownCityNotFound ==
    (outcome.op \in {"get_city_dashboard", "get_kpi_history"}
        /\ outcome.city_name \notin DOMAIN CITIES_DATA)
    => outcome.answer.status = "404"


\* C27: a request to a gate with a correctly signed, unexpired token whose
\* subject does not exist or is inactive at request time is answered 401;
\* this holds for the token a login returned before the deactivation.
GateStep == outcome'.op = "gate" /\ clock' = clock

C27_InactiveSubjectRejected ==
    [][ ( /\ GateStep
          /\ ValidToken(outcome'.credentials)
          /\ \/ SubjectOf(outcome'.credentials) \notin Ids
             \/ ~users[SubjectOf(outcome'.credentials)].is_active )
        => outcome'.answer = Unauthorized("User inactive or not found") ]_vars

C27_Witness ==
    /\ outcome.op = "gate"
    /\ issued.kind = "token"
    /\ outcome.credentials = issued.token
    /\ ValidToken(issued.token)
    /\ ~users[SubjectOf(issued.token)].is_active
    /\ outcome.answer.status = "401"

\* C28: the decision of a role gate does not depend on the user_type claim
\* of the token: every valid token with the same subject id gets the
\* decision the presented one got.
C28_RoleClaimIgnored ==
    [][ (GateStep /\ ValidToken(outcome'.credentials))
        => \A other \in SignedTokens :
             other.payload.sub = outcome'.credentials.payload.sub
             => Depends(outcome'.checker, other, clock).status = outcome'.answer.status ]_vars

C28_Witness ==
    /\ outcome.op = "gate"
    /\ outcome.credentials \in SignedTokens
    /\ outcome.checker = RequireRoleOf(AUTHORITY)
    /\ outcome.credentials.payload.user_type = AUTHORITY
    /\ SubjectOf(outcome.credentials) \in Ids
    /\ users[SubjectOf(outcome.credentials)].user_type = USER
    /\ users[SubjectOf(outcome.credentials)].is_active
    /\ outcome.answer.status = "403"

====
